---- MODULE Spec2Model ----
(***************************************************************************)
(* A model of the tsl2591 driver (src/src/lib.rs): the Tsl2591 struct, its *)
(* constructor and methods, the bus transactions they issue, and the f32   *)
(* arithmetic of calculate_lux.                                            *)
(*                                                                         *)
(* A bus transaction either succeeds or fails.  The driver handles a       *)
(* failure with expect()/panic!(): the call does not return, and the model *)
(* records the panic in ret and moves to pc = "panicked", from which no    *)
(* further method is called.                                               *)
(***************************************************************************)
EXTENDS Integers, Sequences, FiniteSets, TLC

\* ------------------------------------------------------------ constants

COMMAND_BIT == 160
REGISTER_DEVICE_ID == 18
REGISTER_ENABLE == 0
REGISTER_CONTROL == 1
REGISTER_CHAN0_LOW == 20
REGISTER_CHAN1_LOW == 22

POWER_OFF == 0
POWER_ON == 1
ENABLE_AEN == 2
ENABLE_AIEN == 16
ENABLE_NPIEN == 128

LUX_DF == 408

\* The saturation value compared against in calculate_lux (0xFFFF).
CHAN_OVERFLOW == 65535

\* ------------------------------------------------------------ u8 / u16 bit operations

RECURSIVE BitOrN(_, _, _)
\* Bitwise OR of two naturals below 2^n.
BitOrN(a, b, n) ==
    IF n = 0 THEN 0
    ELSE (IF (a % 2 = 1) \/ (b % 2 = 1) THEN 1 ELSE 0)
         + 2 * BitOrN(a \div 2, b \div 2, n - 1)

RECURSIVE BitAndN(_, _, _)
\* Bitwise AND of two naturals below 2^n.
BitAndN(a, b, n) ==
    IF n = 0 THEN 0
    ELSE (IF (a % 2 = 1) /\ (b % 2 = 1) THEN 1 ELSE 0)
         + 2 * BitAndN(a \div 2, b \div 2, n - 1)

\* The | of two u8 values.
BitOr8(a, b) == BitOrN(a, b, 8)

\* The | of two u16 values.
BitOr16(a, b) == BitOrN(a, b, 16)

\* (x as u16) << 8 : the bits shifted out of 16 are lost.
Shl8U16(x) == (x * 256) % 65536

\* ------------------------------------------------------------ enums

IntegrationTimes == {"IT100MS", "IT200MS", "IT300MS", "IT400MS", "IT500MS", "IT600MS"}

Gains == {"LOW", "MEDIUM", "GHIGH", "MAX"}

\* `timing as u8`: the discriminant of an IntegrationTime.
IntegrationTime(t) ==
    CASE t = "IT100MS" -> 0
      [] t = "IT200MS" -> 1
      [] t = "IT300MS" -> 2
      [] t = "IT400MS" -> 3
      [] t = "IT500MS" -> 4
      [] t = "IT600MS" -> 5

\* A variant of Gain whose discriminants are 0..3, not shifted into bits 4-5.
GainUnshifted(g) ==
    CASE g = "LOW" -> 0
      [] g = "MEDIUM" -> 1
      [] g = "GHIGH" -> 2
      [] g = "MAX" -> 3

\* `gain as u8`: the discriminant of a Gain.
Gain(g) ==
    CASE g = "LOW" -> 0
      [] g = "MEDIUM" -> 16
      [] g = "GHIGH" -> 32
      [] g = "MAX" -> 48

\* ------------------------------------------------------------ f32 arithmetic
\* An f32 is [k, s, m, e]: k = "fin" is (-1)^s * m * 2^e with 2^23 <= m < 2^24
\* (a normal number: every value calculate_lux can produce from u16 counts
\* and the twenty-four settings lies between 2^-40 and 2^20, far from the
\* subnormal and overflow ranges); k = "zero" is a signed zero, "inf" a signed
\* infinity, "nan" a NaN.  Operations round to nearest, ties to even.

Pow2Table == <<1, 2, 4, 8, 16, 32, 64, 128, 256, 512, 1024, 2048, 4096, 8192, 16384,
               32768, 65536, 131072, 262144, 524288, 1048576, 2097152, 4194304,
             8388608, 16777216, 33554432, 67108864, 134217728, 268435456,
             536870912, 1073741824>>

\* 2^n for 0 <= n <= 30.
Pow2(n) == Pow2Table[n + 1]

F32Fin(s, m, e) == [k |-> "fin", s |-> s, m |-> m, e |-> e]

F32Zero(s) == [k |-> "zero", s |-> s, m |-> 0, e |-> 0]

F32Inf(s) == [k |-> "inf", s |-> s, m |-> 0, e |-> 0]

F32NaN == [k |-> "nan", s |-> 0, m |-> 0, e |-> 0]

\* The number of binary digits of m, for 0 < m < 2^31.
NumBits(m) ==
    IF m < 65536 THEN
        (IF m < 256 THEN
            (IF m < 16 THEN (IF m < 4 THEN (IF m < 2 THEN 1 ELSE 2)
                                     ELSE (IF m < 8 THEN 3 ELSE 4))
                       ELSE (IF m < 64 THEN (IF m < 32 THEN 5 ELSE 6)
                                      ELSE (IF m < 128 THEN 7 ELSE 8)))
         ELSE
            (IF m < 4096 THEN (IF m < 1024 THEN (IF m < 512 THEN 9 ELSE 10)
                                          ELSE (IF m < 2048 THEN 11 ELSE 12))
                         ELSE (IF m < 16384 THEN (IF m < 8192 THEN 13 ELSE 14)
                                           ELSE (IF m < 32768 THEN 15 ELSE 16))))
    ELSE
        (IF m < 16777216 THEN
            (IF m < 1048576 THEN (IF m < 262144 THEN (IF m < 131072 THEN 17 ELSE 18)
                                               ELSE (IF m < 524288 THEN 19 ELSE 20))
                            ELSE (IF m < 4194304 THEN (IF m < 2097152 THEN 21 ELSE 22)
                                                ELSE (IF m < 8388608 THEN 23 ELSE 24)))
         ELSE
            (IF m < 268435456 THEN
                (IF m < 67108864 THEN (IF m < 33554432 THEN 25 ELSE 26)
                                 ELSE (IF m < 134217728 THEN 27 ELSE 28))
             ELSE (IF m < 1073741824 THEN (IF m < 536870912 THEN 29 ELSE 30) ELSE 31)))

\* A mantissa q <= 2^24 at exponent e: 2^24 itself is 2^23 one exponent up.
F32Carry(s, q, e) ==
    IF q = 16777216 THEN F32Fin(s, 8388608, e + 1) ELSE F32Fin(s, q, e)

\* q + r/(2*half) (+ a little more when sticky) rounded to the nearest
\* integer, ties to even.
RoundNearestEven(q, r, half, sticky) ==
    IF r > half \/ (r = half /\ (sticky \/ q % 2 = 1)) THEN q + 1 ELSE q

\* F32Round for an m of n binary digits.
F32RoundBits(s, m, e, sticky, n) ==
    IF n <= 24 THEN F32Fin(s, m * Pow2(24 - n), e - (24 - n))
    ELSE F32Carry(s, RoundNearestEven(m \div Pow2(n - 24), m % Pow2(n - 24),
                                      Pow2(n - 25), sticky),
                  e + (n - 24))

\* The f32 nearest to (-1)^s * (m + f) * 2^e, where 0 < m < 2^31, and f = 0
\* when sticky is FALSE and 0 < f < 1 when it is TRUE (then m >= 2^24).
F32Round(s, m, e, sticky) == F32RoundBits(s, m, e, sticky, NumBits(m))

\* `n as f32` for an integer 0 <= n < 2^24 (exact), and the literals 100.0 ...
F32FromInt(n) == IF n = 0 THEN F32Zero(0) ELSE F32Round(0, n, 0, FALSE)

F32Neg(a) == IF a.k = "nan" THEN a ELSE [a EXCEPT !.s = 1 - a.s]

\* |a| > |b| for two "fin" values.
F32MagGreater(a, b) == a.e > b.e \/ (a.e = b.e /\ a.m > b.m)

\* y8 (the smaller operand's mantissa with three extra bits) shifted right by
\* t places, the bits lost jammed into the last bit kept.
ShiftRightJam(y8, t) ==
    IF t >= 27 THEN 1
    ELSE IF y8 % Pow2(t) /= 0 /\ (y8 \div Pow2(t)) % 2 = 0 THEN y8 \div Pow2(t) + 1
    ELSE y8 \div Pow2(t)

\* The sum of the aligned mantissas xm and ym of signs xs and ys, at exponent e.
F32AddAligned(xs, xm, ys, ym, e) ==
    IF xs = ys THEN F32Round(xs, xm + ym, e, FALSE)
    ELSE IF xm = ym THEN F32Zero(0)
    ELSE F32Round(xs, xm - ym, e, FALSE)

\* x + y for two "fin" values with |x| >= |y|: three extra bits (guard, round,
\* sticky) below x's mantissa, y aligned to them.
F32AddOrdered(x, y) ==
    F32AddAligned(x.s, 8 * x.m, y.s, ShiftRightJam(8 * y.m, x.e - y.e), x.e - 3)

\* a + b
F32Add(a, b) ==
    IF a.k = "nan" \/ b.k = "nan" THEN F32NaN
    ELSE IF a.k = "inf" THEN (IF b.k = "inf" /\ b.s /= a.s THEN F32NaN ELSE a)
    ELSE IF b.k = "inf" THEN b
    ELSE IF a.k = "zero" THEN
        (IF b.k = "zero" THEN F32Zero(IF a.s = 1 /\ b.s = 1 THEN 1 ELSE 0) ELSE b)
    ELSE IF b.k = "zero" THEN a
    ELSE IF F32MagGreater(b, a) THEN F32AddOrdered(b, a)
    ELSE F32AddOrdered(a, b)

\* a - b
F32Sub(a, b) == F32Add(a, F32Neg(b))

\* The product H * 2^24 + L (L < 2^24) of two mantissas, at exponent e.
F32MulRound(s, H, L, e) ==
    F32Round(s, 64 * H + L \div 262144, e + 18, L % 262144 /= 0)

\* The 48-bit product from its partial products: hi * 2^24 + mid * 2^12 + lo.
F32MulParts(s, hi, mid, lo, e) ==
    F32MulRound(s, hi + mid \div 4096 + ((mid % 4096) * 4096 + lo) \div 16777216,
                ((mid % 4096) * 4096 + lo) % 16777216, e)

\* The product of two mantissas given as 12-bit halves.
F32MulHalves(s, ah, al, bh, bl, e) ==
    F32MulParts(s, ah * bh, ah * bl + al * bh, al * bl, e)

\* a * b
F32Mul(a, b) ==
    IF a.k = "nan" \/ b.k = "nan" THEN F32NaN
    ELSE IF a.k = "inf" THEN
        (IF b.k = "zero" THEN F32NaN ELSE F32Inf(IF a.s = b.s THEN 0 ELSE 1))
    ELSE IF b.k = "inf" THEN
        (IF a.k = "zero" THEN F32NaN ELSE F32Inf(IF a.s = b.s THEN 0 ELSE 1))
    ELSE IF a.k = "zero" \/ b.k = "zero" THEN F32Zero(IF a.s = b.s THEN 0 ELSE 1)
    ELSE F32MulHalves(IF a.s = b.s THEN 0 ELSE 1, a.m \div 4096, a.m % 4096,
                      b.m \div 4096, b.m % 4096, a.e + b.e)

RECURSIVE F32DivBits(_, _, _, _, _, _)
\* n more bits of the binary long division by d, seven at a step (r < d < 2^24,
\* so 128 * r < 2^31), then the rounding of the quotient q with remainder r.
F32DivBits(s, q, r, d, n, e) ==
    IF n = 0 THEN F32Round(s, q, e, r /= 0)
    ELSE IF n >= 7 THEN F32DivBits(s, 128 * q + (128 * r) \div d, (128 * r) % d, d, n - 7, e)
    ELSE F32DivBits(s, Pow2(n) * q + (Pow2(n) * r) \div d, (Pow2(n) * r) % d, d, 0, e)

\* a / b
F32Div(a, b) ==
    IF a.k = "nan" \/ b.k = "nan" THEN F32NaN
    ELSE IF a.k = "inf" THEN
        (IF b.k = "inf" THEN F32NaN ELSE F32Inf(IF a.s = b.s THEN 0 ELSE 1))
    ELSE IF b.k = "inf" THEN F32Zero(IF a.s = b.s THEN 0 ELSE 1)
    ELSE IF b.k = "zero" THEN
        (IF a.k = "zero" THEN F32NaN ELSE F32Inf(IF a.s = b.s THEN 0 ELSE 1))
    ELSE IF a.k = "zero" THEN F32Zero(IF a.s = b.s THEN 0 ELSE 1)
    ELSE F32DivBits(IF a.s = b.s THEN 0 ELSE 1, a.m \div b.m, a.m % b.m, b.m, 26,
                    a.e - b.e - 26)

\* ------------------------------------------------------------ the driver

\* The value of the struct before new() has built it and after a panic in
\* new() has dropped it.
NoDriver == [enabled |-> FALSE, integration |-> "NONE", gain |-> "NONE"]

\* One bus transaction: kind is the smbus call, reg the command byte, data
\* the byte written or the bytes received, ok whether the call returned Ok.
Tx(kind, reg, data, ok) == [kind |-> kind, reg |-> reg, data |-> data, ok |-> ok]

NoValue == [k |-> "none", s |-> 0, m |-> 0, e |-> 0]

\* How a call ended: "ok" (it returned), "lux" (read returned val) or "panic"
\* (it unwound with msg and returned nothing).
Ret(kind, msg, val) == [kind |-> kind, msg |-> msg, val |-> val]

\* What a call did: the struct after it, how it ended, the transactions it
\* issued in order, and the raw channel pair it obtained (<<>> if none).
Outcome(s, r, t, channels) == [self |-> s, ret |-> r, txs |-> t, raw |-> channels]

\* A variant of EnableValue that leaves out ENABLE_NPIEN.
EnableValueWithoutNpien == BitOr8(BitOr8(POWER_ON, ENABLE_AEN), ENABLE_AIEN)

\* POWER_ON | ENABLE_AEN | ENABLE_AIEN | ENABLE_NPIEN
EnableValue == BitOr8(BitOr8(BitOr8(POWER_ON, ENABLE_AEN), ENABLE_AIEN), ENABLE_NPIEN)

\* A variant of enable that flips the flag instead of setting it.
enable_toggles(s, ok) ==
    LET w == Tx("write_byte", BitOr8(COMMAND_BIT, REGISTER_ENABLE), <<EnableValue>>, ok)
    IN  IF ~ok THEN Outcome(s, Ret("panic", "Failed to enable device", NoValue), <<w>>, <<>>)
        ELSE Outcome([s EXCEPT !.enabled = ~s.enabled], Ret("ok", "", NoValue), <<w>>, <<>>)

\* A variant of enable that addresses the enable register without the
\* command bit.
enable_without_command_bit(s, ok) ==
    LET w == Tx("write_byte", REGISTER_ENABLE, <<EnableValue>>, ok)
    IN  IF ~ok THEN Outcome(s, Ret("panic", "Failed to enable device", NoValue), <<w>>, <<>>)
        ELSE Outcome([s EXCEPT !.enabled = TRUE], Ret("ok", "", NoValue), <<w>>, <<>>)

\* A variant of enable whose expect is inverted: it panics when the write
\* succeeds.
enable_expect_err(s, ok) ==
    LET w == Tx("write_byte", BitOr8(COMMAND_BIT, REGISTER_ENABLE), <<EnableValue>>, ok)
    IN  Outcome(s, Ret("panic", "Failed to enable device", NoValue), <<w>>, <<>>)

\* A variant of enable that sets the flag before the write's result is known.
enable_flag_first(s, ok) ==
    LET w == Tx("write_byte", BitOr8(COMMAND_BIT, REGISTER_ENABLE), <<EnableValue>>, ok)
    IN  IF ~ok THEN Outcome([s EXCEPT !.enabled = TRUE],
                            Ret("panic", "Failed to enable device", NoValue), <<w>>, <<>>)
        ELSE Outcome([s EXCEPT !.enabled = TRUE], Ret("ok", "", NoValue), <<w>>, <<>>)

\* pub fn enable(&mut self)
enable(s, ok) ==
    LET w == Tx("write_byte", BitOr8(COMMAND_BIT, REGISTER_ENABLE), <<EnableValue>>, ok)
    IN  IF ~ok THEN Outcome(s, Ret("panic", "Failed to enable device", NoValue), <<w>>, <<>>)
        ELSE Outcome([s EXCEPT !.enabled = TRUE], Ret("ok", "", NoValue), <<w>>, <<>>)

\* A variant of disable that clears the flag before the write's result is known.
disable_flag_first(s, ok) ==
    LET w == Tx("write_byte", BitOr8(COMMAND_BIT, REGISTER_ENABLE), <<POWER_OFF>>, ok)
    IN  IF ~ok THEN Outcome([s EXCEPT !.enabled = FALSE],
                            Ret("panic", "Failed to disable device", NoValue), <<w>>, <<>>)
        ELSE Outcome([s EXCEPT !.enabled = FALSE], Ret("ok", "", NoValue), <<w>>, <<>>)

\* pub fn disable(&mut self)
disable(s, ok) ==
    LET w == Tx("write_byte", BitOr8(COMMAND_BIT, REGISTER_ENABLE), <<POWER_OFF>>, ok)
    IN  IF ~ok THEN Outcome(s, Ret("panic", "Failed to disable device", NoValue), <<w>>, <<>>)
        ELSE Outcome([s EXCEPT !.enabled = FALSE], Ret("ok", "", NoValue), <<w>>, <<>>)

\* A variant of ControlValue that drops the gain code.
ControlValueTimingOnly(timing, gain) == IntegrationTime(timing)

\* timing as u8 | gain as u8
ControlValue(timing, gain) == BitOr8(IntegrationTime(timing), Gain(gain))

\* A variant of set_timing_gain that also marks the device enabled.
set_timing_gain_powers_on(s, timing, gain, ok) ==
    LET w == Tx("write_byte", BitOr8(COMMAND_BIT, REGISTER_CONTROL),
                <<ControlValue(timing, gain)>>, ok)
    IN  IF ~ok THEN Outcome(s, Ret("panic", "Failed to set device timing", NoValue), <<w>>, <<>>)
        ELSE Outcome([s EXCEPT !.integration = timing, !.gain = gain, !.enabled = TRUE],
                     Ret("ok", "", NoValue), <<w>>, <<>>)

\* A variant of set_timing_gain that stores the integration time before the
\* write's result is known and the gain after it.
set_timing_gain_split(s, timing, gain, ok) ==
    LET w == Tx("write_byte", BitOr8(COMMAND_BIT, REGISTER_CONTROL),
                <<ControlValue(timing, gain)>>, ok)
    IN  IF ~ok THEN Outcome([s EXCEPT !.integration = timing],
                            Ret("panic", "Failed to set device timing", NoValue), <<w>>, <<>>)
        ELSE Outcome([s EXCEPT !.integration = timing, !.gain = gain],
                     Ret("ok", "", NoValue), <<w>>, <<>>)

\* pub fn set_timing_gain(&mut self, timing, gain)
set_timing_gain(s, timing, gain, ok) ==
    LET w == Tx("write_byte", BitOr8(COMMAND_BIT, REGISTER_CONTROL),
                <<ControlValue(timing, gain)>>, ok)
    IN  IF ~ok THEN Outcome(s, Ret("panic", "Failed to set device timing", NoValue), <<w>>, <<>>)
        ELSE Outcome([s EXCEPT !.integration = timing, !.gain = gain],
                     Ret("ok", "", NoValue), <<w>>, <<>>)

\* A variant of the combination that takes the first byte received as the
\* high byte.
CombineBigEndian(c) == BitOr16(Shl8U16(c[1]), c[2])

\* ((c[1] as u16) << 8) | c[0] as u16
Combine(c) == BitOr16(Shl8U16(c[2]), c[1])

\* The result of a read call on the bus: Err, or Ok with the bytes received.
Err == [ok |-> FALSE, data |-> <<>>]

Ok(bytes) == [ok |-> TRUE, data |-> bytes]

\* A variant of get_full_luminosity that issues both block reads before it
\* looks at either result.
get_full_luminosity_reads_both(s, res0, res1) ==
    LET r0 == Tx("read_block", BitOr8(COMMAND_BIT, REGISTER_CHAN0_LOW), res0.data, res0.ok)
        r1 == Tx("read_block", BitOr8(COMMAND_BIT, REGISTER_CHAN1_LOW), res1.data, res1.ok)
    IN  IF ~res0.ok THEN
            Outcome(s, Ret("panic", "Error reading chan 0", NoValue), <<r0, r1>>, <<>>)
        ELSE IF ~res1.ok THEN
            Outcome(s, Ret("panic", "Error reading chan 1", NoValue), <<r0, r1>>, <<>>)
        ELSE Outcome(s, Ret("ok", "", NoValue), <<r0, r1>>,
                     <<Combine(res0.data), Combine(res1.data)>>)

\* fn get_full_luminosity(&mut self) -> (u16, u16): res0 and res1 are the
\* results of the two block reads (the second is issued only after the first
\* has returned Ok).
get_full_luminosity(s, res0, res1) ==
    LET ok0 == res0.ok
        ok1 == res1.ok
        b0 == res0.data
        b1 == res1.data
        r0 == Tx("read_block", BitOr8(COMMAND_BIT, REGISTER_CHAN0_LOW), b0, ok0)
        r1 == Tx("read_block", BitOr8(COMMAND_BIT, REGISTER_CHAN1_LOW), b1, ok1)
    IN  IF ~ok0 THEN Outcome(s, Ret("panic", "Error reading chan 0", NoValue), <<r0>>, <<>>)
        ELSE IF ~ok1 THEN
            Outcome(s, Ret("panic", "Error reading chan 1", NoValue), <<r0, r1>>, <<>>)
        ELSE Outcome(s, Ret("ok", "", NoValue), <<r0, r1>>, <<Combine(b0), Combine(b1)>>)

\* match self.integration { ... => atime = ... }
Atime(integration) ==
    CASE integration = "IT100MS" -> F32FromInt(100)
      [] integration = "IT200MS" -> F32FromInt(200)
      [] integration = "IT300MS" -> F32FromInt(300)
      [] integration = "IT400MS" -> F32FromInt(400)
      [] integration = "IT500MS" -> F32FromInt(500)
      [] integration = "IT600MS" -> F32FromInt(600)

\* match self.gain { ... => again = ... }
Again(gain) ==
    CASE gain = "LOW" -> F32FromInt(1)
      [] gain = "MEDIUM" -> F32FromInt(25)
      [] gain = "GHIGH" -> F32FromInt(428)
      [] gain = "MAX" -> F32FromInt(9876)

\* A variant of IsOverflow that tests channel 0 alone.
IsOverflowCh0Only(ch0, ch1) == ch0 = CHAN_OVERFLOW

\* if ch0 == 0xFFFF || ch1 == 0xFFFF
IsOverflow(ch0, ch1) == ch0 = CHAN_OVERFLOW \/ ch1 = CHAN_OVERFLOW

\* let cpl = (atime * again) / LUX_DF;
Cpl(atime, again) == F32Div(F32Mul(atime, again), F32FromInt(LUX_DF))

\* cpl for each setting of (self.integration, self.gain).
CplOf == [i \in IntegrationTimes, g \in Gains |-> Cpl(Atime(i), Again(g))]

\* The literal 1.0
F32One == F32FromInt(1)

\* A variant of LuxF32 whose second factor is (ch1 / ch0 - 1.0).
LuxF32RatioInverted(ch0, ch1, cpl) ==
    F32Div(F32Mul(F32Sub(ch0, ch1), F32Sub(F32Div(ch1, ch0), F32One)), cpl)

\* A variant of LuxF32 without the (1.0 - ch1 / ch0) factor.
LuxF32WithoutRatio(ch0, ch1, cpl) == F32Div(F32Sub(ch0, ch1), cpl)

\* let lux = (ch0 - ch1) * (1.0 - (ch1 / ch0)) / cpl;  with ch0, ch1 as f32
LuxF32(ch0, ch1, cpl) ==
    F32Div(F32Mul(F32Sub(ch0, ch1), F32Sub(F32One, F32Div(ch1, ch0))), cpl)

\* let ch0 = ch0 as f32; let ch1 = ch1 as f32; ... lux
Lux(ch0, ch1, cpl) == LuxF32(F32FromInt(ch0), F32FromInt(ch1), cpl)

\* fn calculate_lux(&mut self, ch0: u16, ch1: u16) -> f32
calculate_lux(s, ch0, ch1) ==
    IF IsOverflow(ch0, ch1) THEN Ret("panic", "overflow encountered", NoValue)
    ELSE Ret("lux", "", Lux(ch0, ch1, CplOf[s.integration, s.gain]))

\* A variant of read that puts the setting back to IT100MS and MEDIUM before
\* it computes the lux.
read_with_default_setting(s, res0, res1) ==
    LET g == get_full_luminosity(s, res0, res1)
        d == [g.self EXCEPT !.integration = "IT100MS", !.gain = "MEDIUM"]
    IN  IF g.ret.kind = "panic" THEN g
        ELSE Outcome(d, calculate_lux(d, g.raw[1], g.raw[2]), g.txs, g.raw)

\* pub fn read(&mut self) -> f32
read(s, res0, res1) ==
    LET g == get_full_luminosity(s, res0, res1)
    IN  IF g.ret.kind = "panic" THEN g
        ELSE Outcome(g.self, calculate_lux(g.self, g.raw[1], g.raw[2]), g.txs, g.raw)

\* A variant of new that returns the driver without the disable() call.
new_without_disable(openOk, device_id, disOk) ==
    LET rd == Tx("read_byte", BitOr8(COMMAND_BIT, REGISTER_DEVICE_ID),
                 device_id.data, device_id.ok)
    IN  IF ~openOk THEN
            Outcome(NoDriver, Ret("panic", "unwrap on LinuxI2CDevice new", NoValue), <<>>, <<>>)
        ELSE IF ~device_id.ok THEN
            Outcome(NoDriver, Ret("panic", "Failed to find tsl2591", NoValue), <<rd>>, <<>>)
        ELSE Outcome([enabled |-> FALSE, integration |-> "IT100MS", gain |-> "MEDIUM"],
                     Ret("ok", "", NoValue), <<rd>>, <<>>)

\* pub fn new() -> Self: openOk is LinuxI2CDevice::new(..) returning Ok,
\* device_id the result of the identity read, disOk that of disable's write.
new(openOk, device_id, disOk) ==
    LET idOk == device_id.ok
        rd == Tx("read_byte", BitOr8(COMMAND_BIT, REGISTER_DEVICE_ID),
                 device_id.data, idOk)
        tsl_2591 == [enabled |-> FALSE, integration |-> "IT100MS", gain |-> "MEDIUM"]
        d == disable(tsl_2591, disOk)
    IN  IF ~openOk THEN
            Outcome(NoDriver, Ret("panic", "unwrap on LinuxI2CDevice new", NoValue), <<>>, <<>>)
        ELSE IF ~idOk THEN
            Outcome(NoDriver, Ret("panic", "Failed to find tsl2591", NoValue), <<rd>>, <<>>)
        ELSE IF d.ret.kind = "panic" THEN Outcome(NoDriver, d.ret, <<rd>> \o d.txs, <<>>)
        ELSE Outcome(d.self, d.ret, <<rd>> \o d.txs, <<>>)

\* ------------------------------------------------------------ the device and the bus

\* The register a write transaction reaches, by its command byte.
RegisterOf(reg) ==
    IF reg = BitOr8(COMMAND_BIT, REGISTER_ENABLE) THEN "enable"
    ELSE IF reg = BitOr8(COMMAND_BIT, REGISTER_CONTROL) THEN "control"
    ELSE "other"

\* The device's registers after one transaction: a successful write_byte
\* stores its byte; a failed one and every read leave them as they are.
DevApply(d, t) ==
    IF t.kind = "write_byte" /\ t.ok /\ RegisterOf(t.reg) /= "other"
    THEN [d EXCEPT ![RegisterOf(t.reg)] = t.data[1]]
    ELSE d

\* The last byte successfully written to each register (<<>>: none yet).
WrittenApply(w, t) ==
    IF t.kind = "write_byte" /\ t.ok /\ RegisterOf(t.reg) /= "other"
    THEN [w EXCEPT ![RegisterOf(t.reg)] = t.data]
    ELSE w

RECURSIVE DevAfter(_, _)
DevAfter(d, ts) == IF ts = <<>> THEN d ELSE DevAfter(DevApply(d, Head(ts)), Tail(ts))

RECURSIVE WrittenAfter(_, _)
WrittenAfter(w, ts) ==
    IF ts = <<>> THEN w ELSE WrittenAfter(WrittenApply(w, Head(ts)), Tail(ts))

\* ------------------------------------------------------------ inputs

\* Bytes the identity register may return (0x50 is the TSL2591's id).
IdSamples == {0, 80, 255}

\* Byte pairs <<low, high>> a channel block read may return:
\* 0, 151, 430, 0x1234, 0xFFFE, 0xFFFF.
BlockSamples == {<<0, 0>>, <<151, 0>>, <<174, 1>>, <<52, 18>>, <<254, 255>>, <<255, 255>>}

\* What the identity read and a channel block read may return.
IdResults == {Err} \cup {Ok(<<id>>) : id \in IdSamples}

BlockResults == {Err} \cup {Ok(b) : b \in BlockSamples}

\* Register contents the device may hold when new() runs.
InitialEnable == {0, 147}

InitialControl == {0, 33}

NoArg == [timing |-> "NONE", gain |-> "NONE"]

\* ------------------------------------------------------------ state

VARIABLES
    pc,       \* "uninit" before new(), "ready" with a driver, "panicked"
    self,     \* the Tsl2591 struct: enabled, integration, gain
    dev,      \* the device's enable and control registers
    written,  \* the last byte successfully written to each of them
    op,       \* the method last called
    arg,      \* the arguments of the last set_timing_gain call
    txs,      \* the bus transactions the last call issued, in order
    raw,      \* the (ch0, ch1) the last read obtained
    ret       \* how the last call ended

vars == <<pc, self, dev, written, op, arg, txs, raw, ret>>

Init ==
    /\ pc = "uninit"
    /\ self = NoDriver
    /\ dev \in [enable : InitialEnable, control : InitialControl]
    /\ written = [enable |-> <<>>, control |-> <<>>]
    /\ op = "none"
    /\ arg = NoArg
    /\ txs = <<>>
    /\ raw = <<>>
    /\ ret = Ret("none", "", NoValue)

\* The state after a call named o with arguments a whose outcome is out.
Finish(o, a, out) ==
    /\ op' = o
    /\ arg' = a
    /\ self' = out.self
    /\ ret' = out.ret
    /\ txs' = out.txs
    /\ raw' = out.raw
    /\ dev' = DevAfter(dev, out.txs)
    /\ written' = WrittenAfter(written, out.txs)
    /\ pc' = IF out.ret.kind = "panic" THEN "panicked" ELSE "ready"

New ==
    /\ pc = "uninit"
    /\ \E openOk \in BOOLEAN, device_id \in IdResults, disOk \in BOOLEAN :
           Finish("new", NoArg, new(openOk, device_id, disOk))

Enable ==
    /\ pc = "ready"
    /\ \E ok \in BOOLEAN : Finish("enable", NoArg, enable(self, ok))

Disable ==
    /\ pc = "ready"
    /\ \E ok \in BOOLEAN : Finish("disable", NoArg, disable(self, ok))

SetTimingGain ==
    /\ pc = "ready"
    /\ \E timing \in IntegrationTimes, gain \in Gains, ok \in BOOLEAN :
           Finish("set_timing_gain", [timing |-> timing, gain |-> gain],
                  set_timing_gain(self, timing, gain, ok))

Read ==
    /\ pc = "ready"
    /\ \E res0 \in BlockResults, res1 \in BlockResults :
           Finish("read", NoArg, read(self, res0, res1))

Next == New \/ Enable \/ Disable \/ SetTimingGain \/ Read

Spec == Init /\ [][Next]_vars

\* ------------------------------------------------------------ properties

\* The defaults new() gives the struct.
Defaults == [enabled |-> FALSE, integration |-> "IT100MS", gain |-> "MEDIUM"]

\* x in hundredths, rounded to the nearest (x finite, 2^-7 <= |x| < 2^24).
Hundredths(x) ==
    (100 * x.m) \div Pow2(0 - x.e)
    + (IF 2 * ((100 * x.m) % Pow2(0 - x.e)) >= Pow2(0 - x.e) THEN 1 ELSE 0)

\* C1: whenever a driver exists, its cached integration and gain are the pair
\* whose code was last successfully written to the control register (each
\* field separately: the integration code is that byte's low three bits, the
\* gain code its bits 4 and 5), or the defaults 100 ms / MEDIUM if no control
\* write has succeeded; so a configure whose write fails changes neither
\* field and no field is ever updated without the other.
C1_CachedConfigIsLastControlWrite ==
    self /= NoDriver =>
        IF written.control = <<>>
        THEN self.integration = "IT100MS" /\ self.gain = "MEDIUM"
        ELSE /\ IntegrationTime(self.integration) = BitAndN(written.control[1], 7, 8)
             /\ Gain(self.gain) = BitAndN(written.control[1], 48, 8)
             /\ written.control[1] = IntegrationTime(self.integration) + Gain(self.gain)

\* C1 witness: a configure whose write failed, asking for a pair that differs
\* in both fields from the pair an earlier configure had written.
C1_Witness ==
    /\ op = "set_timing_gain"
    /\ ret.kind = "panic"
    /\ written.control /= <<>>
    /\ self.integration /= "IT100MS"
    /\ arg.timing /= self.integration
    /\ arg.gain /= self.gain

\* C2: whenever a driver exists (new() has succeeded), the enable register
\* has been written, and enabled is true exactly when the last byte
\* successfully written to it is 0x93 and false exactly when it is 0x00.
C2_EnabledMirrorsLastEnableWrite ==
    self /= NoDriver =>
        /\ written.enable /= <<>>
        /\ self.enabled <=> written.enable = <<147>>
        /\ ~self.enabled <=> written.enable = <<0>>

\* C2 witness: a disable whose write failed on an enabled driver.
C2_Witness == op = "disable" /\ ret.kind = "panic" /\ self.enabled /\ dev.enable = 147

C4_EnableRegisterBytes ==
    /\ \A i \in 1..Len(txs) :
           (txs[i].kind = "write_byte" /\ txs[i].reg = 160) => txs[i].data \in {<<0>>, <<147>>}
    /\ op = "enable" =>
           /\ Len(txs) = 1
           /\ txs[1].kind = "write_byte" /\ txs[1].reg = 160 /\ txs[1].data = <<147>>
    /\ op = "disable" =>
           /\ Len(txs) = 1
           /\ txs[1].kind = "write_byte" /\ txs[1].reg = 160 /\ txs[1].data = <<0>>

\* C4 witness: a successful enable on a driver configured away from the defaults.
C4_Witness ==
    /\ op = "enable"
    /\ ret.kind = "ok"
    /\ dev.enable = 147
    /\ self.gain = "MAX"

\* C5: a successful set_timing_gain(timing, gain) issues exactly one
\* transaction, a write to the control register (command byte 0xA1) of
\* integrationCode | gainCode, and the device's control register then holds
\* that byte.
C5_ConfigureWritesControlByte ==
    (op = "set_timing_gain" /\ ret.kind = "ok") =>
        /\ txs = <<Tx("write_byte", 161,
                      <<BitOrN(IntegrationTime(arg.timing), Gain(arg.gain), 8)>>, TRUE)>>
        /\ dev.control = BitOrN(IntegrationTime(arg.timing), Gain(arg.gain), 8)

\* C5 witness: a successful set_timing_gain(IT600MS, MAX): the byte is 0x35.
C5_Witness ==
    /\ op = "set_timing_gain"
    /\ ret.kind = "ok"
    /\ arg = [timing |-> "IT600MS", gain |-> "MAX"]
    /\ dev.control = 53

\* C6: a new() that returns has issued the identity read (command byte 0xB2)
\* first and then a write of 0x00 to the enable register, and returns a driver
\* with integration 100 ms, gain MEDIUM and enabled false; a new() whose
\* identity read fails issues no write and produces no driver.
C6_NewReadsIdentityThenDisables ==
    op = "new" =>
        /\ ret.kind = "ok" =>
               /\ Len(txs) = 2
               /\ txs[1].kind = "read_byte" /\ txs[1].reg = 178 /\ txs[1].ok
               /\ txs[2] = Tx("write_byte", 160, <<0>>, TRUE)
               /\ self = Defaults
               /\ dev.enable = 0
        /\ (txs /= <<>> /\ ~txs[1].ok) =>
               /\ \A i \in 1..Len(txs) : txs[i].kind /= "write_byte"
               /\ self = NoDriver
               /\ ret.kind = "panic"

\* C6 witness: new() has just returned a driver.
C6_Witness == op = "new" /\ pc = "ready" /\ self = Defaults /\ written.enable = <<0>>

\* C7 as stated: new() fails without constructing a driver both when the
\* identity read errors and when it returns a byte other than the device's
\* signature (0x50).
C7_NewRejectsWrongIdentity ==
    (op = "new" /\ txs /= <<>> /\ (~txs[1].ok \/ txs[1].data /= <<80>>))
        => (self = NoDriver /\ ret.kind = "panic")

\* C8: for every raw pair in which ch0 or ch1 is 0xFFFF, under every
\* integration and gain setting, read fails (it panics with "overflow
\* encountered") and returns no lux value.
C8_SaturatedPairFails ==
    (op = "read" /\ raw /= <<>> /\ (raw[1] = 65535 \/ raw[2] = 65535))
        => (ret.kind = "panic" /\ ret.msg = "overflow encountered" /\ ret.val = NoValue)

\* C8 witness: a read that obtained (430, 0xFFFF) at 600 ms / MAX.
C8_Witness ==
    /\ op = "read"
    /\ raw = <<430, 65535>>
    /\ self.integration = "IT600MS"
    /\ self.gain = "MAX"

\* C9 as stated: whenever the raw channel-0 count is 0, read rejects the
\* sample instead of returning a value of the lux formula.
C9_ZeroChannel0Rejected ==
    (op = "read" /\ raw /= <<>> /\ raw[1] = 0) => ret.kind = "panic"

C11_ConfigureKeepsEnabled ==
    [][op' = "set_timing_gain" =>
           /\ pc = "ready"
           /\ self'.enabled = self.enabled
           /\ \A i \in 1..Len(txs') : txs'[i].reg /= 160
           /\ dev'.enable = dev.enable
           /\ written'.enable = written.enable]_vars

\* C11 witness: a successful set_timing_gain on an enabled driver.
C11_Witness ==
    /\ op = "set_timing_gain"
    /\ ret.kind = "ok"
    /\ self.enabled
    /\ dev.enable = 147
    /\ self.integration = "IT300MS"

\* C12: from any state with a driver, a second successful enable (disable)
\* right after a successful enable (disable) puts the same byte on the wire
\* as the first and ends in the same cached state as the first alone; and
\* whenever an enable (disable) step follows an enable (disable) and
\* succeeds, the transactions, the cached state and the enable register are
\* those the first call left.
C12_EnableDisableIdempotent ==
    /\ [](pc = "ready" =>
            /\ enable(self, TRUE).ret.kind = "ok"
            /\ enable(enable(self, TRUE).self, TRUE).txs = enable(self, TRUE).txs
            /\ enable(enable(self, TRUE).self, TRUE).self = enable(self, TRUE).self
            /\ disable(self, TRUE).ret.kind = "ok"
            /\ disable(disable(self, TRUE).self, TRUE).txs = disable(self, TRUE).txs
            /\ disable(disable(self, TRUE).self, TRUE).self = disable(self, TRUE).self)
    /\ [][(op \in {"enable", "disable"} /\ op' = op /\ ret'.kind = "ok") =>
              /\ txs' = txs
              /\ self' = self
              /\ dev'.enable = dev.enable
              /\ written'.enable = written.enable]_vars

\* C12 witness: an enabled driver right after a successful enable, ready for
\* the next call.
C12_Witness ==
    /\ pc = "ready"
    /\ op = "enable"
    /\ self.enabled
    /\ txs = <<Tx("write_byte", 160, <<147>>, TRUE)>>

\* Each method can be called (its action is enabled) and can end normally
\* (some result of its bus transactions makes it return).
CanSucceed ==
    /\ ENABLED Enable
    /\ \E ok \in BOOLEAN : enable(self, ok).ret.kind = "ok"
    /\ ENABLED Disable
    /\ \E ok \in BOOLEAN : disable(self, ok).ret.kind = "ok"
    /\ ENABLED SetTimingGain
    /\ \A timing \in IntegrationTimes, gain \in Gains :
           \E ok \in BOOLEAN : set_timing_gain(self, timing, gain, ok).ret.kind = "ok"
    /\ ENABLED Read
    /\ \E res0 \in BlockResults, res1 \in BlockResults :
           read(self, res0, res1).ret.kind = "lux"

C14_ReadRawCombinesLittleEndian ==
    /\ (op = "read" /\ raw /= <<>>) =>
           /\ Len(txs) = 2
           /\ \A i \in 1..2 :
                  /\ txs[i].kind = "read_block"
                  /\ txs[i].ok
                  /\ Len(txs[i].data) = 2
                  /\ raw[i] = txs[i].data[2] * 256 + txs[i].data[1]
                  /\ (txs[i].data = <<52, 18>> => raw[i] = 4660)
                  /\ (txs[i].data = <<255, 255>> => raw[i] = 65535)
           /\ txs[1].reg = 180
           /\ txs[2].reg = 182
    /\ (op = "read" /\ raw = <<>>) => ret.kind = "panic"
    /\ (pc = "ready" /\ ~self.enabled) =>
           \A res0 \in BlockResults, res1 \in BlockResults :
               (res0.ok /\ res1.ok) =>
                   get_full_luminosity(self, res0, res1).ret.kind = "ok"

\* C14 witness: a read on a disabled driver has obtained (0x1234, 0xFFFF).
C14_Witness ==
    /\ op = "read"
    /\ ~self.enabled
    /\ raw = <<4660, 65535>>

\* C15: every transaction any call issues carries a command byte that is
\* 0xA0 OR-ed with one of the five offsets 0x12, 0x00, 0x01, 0x14, 0x16; byte
\* writes go only to the enable (0xA0) and control (0xA1) registers, the byte
\* read only to the identity register (0xB2) and block reads only to the two
\* channel registers (0xB4, 0xB6).
C15_TransactionsUseKnownRegisters ==
    \A i \in 1..Len(txs) :
        /\ txs[i].reg \in {BitOrN(160, r, 8) : r \in {18, 0, 1, 20, 22}}
        /\ txs[i].kind \in {"write_byte", "read_byte", "read_block"}
        /\ txs[i].kind = "write_byte" => txs[i].reg \in {160, 161}
        /\ txs[i].kind = "read_byte" => txs[i].reg = 178
        /\ txs[i].kind = "read_block" => txs[i].reg \in {180, 182}

\* C15 witness: after writes to the enable and control registers, a read has
\* issued its two block reads.
C15_Witness ==
    /\ op = "read"
    /\ Len(txs) = 2
    /\ txs[2].kind = "read_block"
    /\ written.control = <<33>>
    /\ written.enable = <<147>>

\* The transactions of the last call show no retry, and a failed transaction
\* is the call's last one and makes the call end the way named by failure.
NoRetry(failure) ==
    /\ op \in {"enable", "disable", "set_timing_gain"} =>
           /\ Len(txs) = 1
           /\ txs[1].kind = "write_byte"
    /\ op = "read" =>
           /\ Len(txs) \in 1..2
           /\ \A i \in 1..Len(txs) : txs[i].kind = "read_block"
           /\ txs[1].reg = 180
           /\ Len(txs) = 2 => (txs[1].ok /\ txs[2].reg = 182)
    /\ op = "new" =>
           /\ Len(txs) <= 2
           /\ Cardinality({i \in 1..Len(txs) : txs[i].kind = "read_byte"}) <= 1
           /\ Cardinality({i \in 1..Len(txs) : txs[i].kind = "write_byte"}) <= 1
    /\ \A i \in 1..Len(txs) :
           ~txs[i].ok => (i = Len(txs) /\ ret.kind = failure)

BelowZero(x) == x.k \in {"fin", "inf"} /\ x.s = 1

\* Byte pairs for the channel counts 0, 1, 2, 150, 151, 430, 431, 0x1234,
\* 0x7FFF, 0x8000, 0xFFFD, 0xFFFE and 0xFFFF.
WideBlockSamples ==
    BlockSamples \cup {<<1, 0>>, <<2, 0>>, <<150, 0>>, <<175, 1>>,
                       <<255, 127>>, <<0, 128>>, <<253, 255>>}

\* The outcomes of read for every setting and every pair of block reads that
\* gives a non-saturated pair with ch0 in 1..0xFFFE and ch1 in 0..0xFFFE.
NonSaturatedReads ==
    {read([enabled |-> TRUE, integration |-> i, gain |-> g], Ok(b0), Ok(b1)) :
        i \in IntegrationTimes, g \in Gains,
        b0 \in {b \in WideBlockSamples : b[2] * 256 + b[1] \in 1..65534},
        b1 \in {b \in WideBlockSamples : b[2] * 256 + b[1] \in 0..65534}}

\* C17 as stated: once there is a driver to call read on, some non-saturated
\* pair (ch0 in 1..0xFFFE, ch1 in 0..0xFFFE) and some setting make read
\* return a lux below zero.
C17_SomeLuxBelowZero ==
    pc = "ready" =>
        \E o \in NonSaturatedReads : o.ret.kind = "lux" /\ BelowZero(o.ret.val)

\* C17 amended: read returns the value of the formula unclamped, and for a
\* non-saturated pair with ch0 >= 1 that value is never below zero (nor NaN):
\* ch0 - ch1 and 1 - ch1/ch0 have the same sign, so their product over the
\* positive cpl is a number >= 0, also when ch1 > ch0.
C17_LuxUnclampedNeverBelowZero ==
    /\ \A o \in NonSaturatedReads :
           /\ o.ret.kind = "lux"
           /\ o.ret.val.k \in {"fin", "zero"}
           /\ o.ret.val.s = 0
           /\ (o.raw[1] /= o.raw[2]) => o.ret.val.k = "fin"
    /\ (op = "read" /\ ret.kind = "lux") =>
           /\ ret.val = LuxF32(F32FromInt(raw[1]), F32FromInt(raw[2]),
                               Cpl(Atime(self.integration), Again(self.gain)))
           /\ raw[1] >= 1 => ~BelowZero(ret.val)

\* C17 witness: a read with ch0 = 151 below ch1 = 430 has returned a lux,
\* which is a positive number.
C17_Witness ==
    /\ op = "read"
    /\ raw = <<151, 430>>
    /\ ret.kind = "lux"
    /\ ret.val.k = "fin"
    /\ ret.val.s = 0
    /\ self.gain = "LOW"

\* C18: the byte a set_timing_gain call puts on the wire encodes its two
\* arguments without loss: byte AND 0x07 is the integration code and byte AND
\* 0x30 the gain code of the call's arguments, the integration codes lie in
\* bits 0-2 and the gain codes in bits 4-5, and the 24 (integration, gain)
\* pairs give 24 distinct bytes.
C18_ControlByteLossless ==
    /\ op = "set_timing_gain" =>
           /\ BitAndN(txs[1].data[1], 7, 8) = IntegrationTime(arg.timing)
           /\ BitAndN(txs[1].data[1], 48, 8) = Gain(arg.gain)
           /\ BitAndN(txs[1].data[1], 200, 8) = 0
    /\ pc = "ready" =>
           /\ \A t \in IntegrationTimes : BitAndN(IntegrationTime(t), 7, 8) = IntegrationTime(t)
           /\ \A g \in Gains : BitAndN(Gain(g), 48, 8) = Gain(g)
           /\ Cardinality(IntegrationTimes \X Gains) = 24
           /\ Cardinality({ControlValue(t, g) : t \in IntegrationTimes, g \in Gains}) = 24
           /\ \A t1 \in IntegrationTimes, t2 \in IntegrationTimes, g1 \in Gains, g2 \in Gains :
                  ControlValue(t1, g1) = ControlValue(t2, g2) => (t1 = t2 /\ g1 = g2)

\* C18 witness: set_timing_gain(IT400MS, GHIGH) has put 0x23 on the wire, from
\* which 0x23 AND 0x07 = 3 and 0x23 AND 0x30 = 0x20 are recovered.
C18_Witness ==
    /\ op = "set_timing_gain"
    /\ arg = [timing |-> "IT400MS", gain |-> "GHIGH"]
    /\ txs[1].data = <<35>>
    /\ BitAndN(35, 7, 8) = 3
    /\ BitAndN(35, 48, 8) = 32

\* The setting the last successful write to the control register encoded,
\* or the defaults of new() when there has been none.
LastConfigured ==
    IF written.control = <<>> THEN [integration |-> "IT100MS", gain |-> "MEDIUM"]
    ELSE [integration |-> CHOOSE t \in IntegrationTimes :
                              IntegrationTime(t) = BitAndN(written.control[1], 7, 8),
          gain |-> CHOOSE g \in Gains : Gain(g) = BitAndN(written.control[1], 48, 8)]

\* C19: a read call, whether it returns a lux, panics on a bus error or
\* panics on overflow, issues no write transaction and leaves the struct's
\* enabled, integration and gain, the device's registers and the record of
\* the last bytes written to them as they were; and the lux a read returns is
\* the formula's value for the raw pair with the atime and again of the last
\* successful set_timing_gain, or of the defaults when there was none.
C19_ReadIsReadOnly ==
    /\ [][op' = "read" =>
              /\ self' = self
              /\ dev' = dev
              /\ written' = written
              /\ \A i \in 1..Len(txs') : txs'[i].kind = "read_block"]_vars
    /\ []((op = "read" /\ ret.kind = "lux") =>
              ret.val = LuxF32(F32FromInt(raw[1]), F32FromInt(raw[2]),
                               Cpl(Atime(LastConfigured.integration),
                                   Again(LastConfigured.gain))))

\* C19 witness: after a successful set_timing_gain(IT600MS, GHIGH) (control
\* byte 0x25) on an enabled driver, a read of (430, 151) has returned a lux
\* and the struct still holds that setting.
C19_Witness ==
    /\ op = "read"
    /\ ret.kind = "lux"
    /\ raw = <<430, 151>>
    /\ written.control = <<37>>
    /\ self = [enabled |-> TRUE, integration |-> "IT600MS", gain |-> "GHIGH"]

====
